---- MODULE Spec2Model ----
(***************************************************************************)
(* Model of the document-size benchmark of crdt-bench-native:              *)
(*   src/src/doc_size.rs        the two drivers, the report table          *)
(*   src/benches/diamond-type.rs  the DiamondTypeDoc engine adapter        *)
(* The diamond_types library itself is an external crate: its oplog is     *)
(* modelled as a set of per-character operations with (agent, seq) ids,    *)
(* and the text of an oplog as a deterministic function of that set.       *)
(***************************************************************************)
EXTENDS Integers, Sequences, FiniteSets

\* ------------------------------------------------------------------ bounds
\* operations one free-form merge scenario may create
MaxOps == 4
\* length of the long insert-only workload
MaxLong == 12
\* driver invocations one harness session makes
MaxRuns == 2

\* program constant: rng.gen_range(1..11) draws from 1..BatchMax
BatchMax == 10

\* u64 identities a create() may draw: one and two decimal digits
AgentIds == {7, 12}

\* ------------------------------------------------------------ small helpers
RECURSIVE to_string(_)
\* u64::to_string: the decimal digits, most significant first
to_string(n) == IF n < 10 THEN <<n>> ELSE to_string(n \div 10) \o <<n % 10>>

RECURSIVE StrLess(_, _)
\* lexicographic order on strings (sequences of code units)
StrLess(s, t) ==
    IF t = <<>> THEN FALSE
    ELSE IF s = <<>> THEN TRUE
    ELSE IF s[1] # t[1] THEN s[1] < t[1]
    ELSE StrLess(Tail(s), Tail(t))

RECURSIVE SumLen(_)
SumLen(S) ==
    IF S = {} THEN 0
    ELSE LET x == CHOOSE y \in S : TRUE IN (1 + Len(x)) + SumLen(S \ {x})

Max(S) == CHOOSE x \in S : \A y \in S : y <= x

InsertAt(s, pos, t) == SubSeq(s, 1, pos) \o t \o SubSeq(s, pos + 1, Len(s))
RemoveAt(s, pos, len) == SubSeq(s, 1, pos) \o SubSeq(s, pos + len + 1, Len(s))

\* ------------------------------------------------- diamond_types ListCRDT
\* An operation: [agent, seq, kind, ch, ref, lam].  kind "ins": ch is the
\* character, ref the id of the item it was typed after (Root at position 0).
\* kind "del": ref is the id of the deleted item.  lam orders an operation
\* after every operation its author knew.
Root == << <<>>, 0 >>
OpId(o) == <<o.agent, o.seq>>

Children(ops, p) == {o \in ops : o.kind = "ins" /\ o.ref = p}
Before(x, y) == x.lam > y.lam \/ (x.lam = y.lam /\ StrLess(y.agent, x.agent))

RECURSIVE Walk(_, _)
Walk(ops, todo) ==
    IF todo = {} THEN <<>>
    ELSE LET first == CHOOSE x \in todo : \A y \in todo \ {x} : Before(x, y)
         IN  <<first>> \o Walk(ops, Children(ops, OpId(first)))
                       \o Walk(ops, todo \ {first})

\* every inserted item, tombstones included, in document order
Items(ops) == Walk(ops, Children(ops, Root))
Deleted(ops) == {o.ref : o \in {d \in ops : d.kind = "del"}}
Visible(ops) == LET dead == Deleted(ops)
                IN  SelectSeq(Items(ops), LAMBDA o : OpId(o) \notin dead)
\* the text an oplog checks out to
Content(ops) == LET v == Visible(ops) IN [i \in 1..Len(v) |-> v[i].ch]

NextSeq(ops, agent) == Cardinality({o \in ops : o.agent = agent}) + 1
NextLam(ops) == IF ops = {} THEN 1 ELSE Max({o.lam : o \in ops}) + 1

\* ListCRDT::new() followed by get_or_create_agent_id(name)
NewListCRDT(name) ==
    [oplog  |-> [client_data |-> <<name>>, ops |-> {}],
     branch |-> [version |-> {}, content |-> <<>>]]

\* ListCRDT::insert(agent 0, pos, one character)
InsertChar(doc, pos, c) ==
    LET ops   == doc.oplog.ops
        agent == doc.oplog.client_data[1]
        vis   == Visible(ops)
        op    == [agent |-> agent, seq |-> NextSeq(ops, agent), kind |-> "ins",
                  ch |-> c, ref |-> IF pos = 0 THEN Root ELSE OpId(vis[pos]),
                  lam |-> NextLam(ops)]
    IN  [oplog  |-> [doc.oplog EXCEPT !.ops = ops \cup {op}],
         branch |-> [version |-> doc.branch.version \cup {OpId(op)},
                     content |-> InsertAt(doc.branch.content, pos, <<c>>)]]

RECURSIVE ListInsert(_, _, _)
\* ListCRDT::insert(agent 0, pos, text)
ListInsert(doc, pos, text) ==
    IF text = <<>> THEN doc
    ELSE ListInsert(InsertChar(doc, pos, text[1]), pos + 1, Tail(text))

\* ListCRDT::delete(agent 0, pos..pos+1)
DeleteChar(doc, pos) ==
    LET ops   == doc.oplog.ops
        agent == doc.oplog.client_data[1]
        vis   == Visible(ops)
        op    == [agent |-> agent, seq |-> NextSeq(ops, agent), kind |-> "del",
                  ch |-> "", ref |-> OpId(vis[pos + 1]), lam |-> NextLam(ops)]
    IN  [oplog  |-> [doc.oplog EXCEPT !.ops = ops \cup {op}],
         branch |-> [version |-> doc.branch.version \cup {OpId(op)},
                     content |-> RemoveAt(doc.branch.content, pos, 1)]]

RECURSIVE ListDelete(_, _, _)
\* ListCRDT::delete(agent 0, pos..pos+len)
ListDelete(doc, pos, len) ==
    IF len = 0 THEN doc ELSE ListDelete(DeleteChar(doc, pos), pos, len - 1)

\* OpLog::encode(options): the agent names in use and every operation
OplogEncode(oplog, opts) ==
    [opts   |-> opts,
     names  |-> {o.agent : o \in oplog.ops},
     ops    |-> oplog.ops,
     intact |-> TRUE]

\* Vec<u8>::len() of an encoding
BytesLen(bytes) == SumLen(bytes.names) + Cardinality(bytes.ops)

RECURSIVE AddNames(_, _)
AddNames(client_data, names) ==
    IF names = {} THEN client_data
    ELSE LET n == CHOOSE x \in names : \A y \in names \ {x} : StrLess(x, y)
         IN  AddNames(IF \E i \in 1..Len(client_data) : client_data[i] = n
                      THEN client_data ELSE Append(client_data, n),
                      names \ {n})

\* a decode_and_add that takes the operations it already knows for new ones
\* and adds them once more
DecodeAndAddAgain(oplog, update) ==
    LET known == {OpId(o) : o \in oplog.ops}
        again == {o \in update.ops : OpId(o) \in known}
        n     == Cardinality(oplog.ops)
    IN  [client_data |-> AddNames(oplog.client_data, update.names),
         ops |-> oplog.ops \cup update.ops
                 \cup {[o EXCEPT !.seq = @ + n, !.lam = @ + n] : o \in again}]

\* a decode that loads the snapshot in place of what the oplog held
DecodeAndReplace(oplog, update) ==
    [client_data |-> AddNames(oplog.client_data, update.names),
     ops |-> update.ops]

\* OpLog::decode_and_add(update): operations already known are kept as they are
DecodeAndAdd(oplog, update) ==
    LET known == {OpId(o) : o \in oplog.ops}
    IN  [client_data |-> AddNames(oplog.client_data, update.names),
         ops |-> oplog.ops \cup {o \in update.ops : OpId(o) \notin known}]

\* Branch::merge(oplog, oplog.local_version_ref())
BranchMerge(branch, oplog) ==
    [version |-> {OpId(o) : o \in oplog.ops}, content |-> Content(oplog.ops)]

\* ------------------------------------------------------- DiamondTypeDoc
\* create(): `id` is the u64 drawn from rand::thread_rng()
create(id) == [doc |-> NewListCRDT(to_string(id)), id |-> to_string(id)]

text_insert(self, pos, text) == [self EXCEPT !.doc = ListInsert(self.doc, pos, text)]

\* a text_del whose range ends at len instead of pos + len
TextDelEndAtLen(self, pos, len) ==
    [self EXCEPT !.doc = ListDelete(self.doc, pos, IF len > pos THEN len - pos ELSE 0)]

text_del(self, pos, len) == [self EXCEPT !.doc = ListDelete(self.doc, pos, len)]

get_text(self) == self.doc.branch.content

encode_full(self) == OplogEncode(self.doc.oplog, "ENCODE_FULL")

\* bytes that do not decode: a snapshot cut off after the operations up to
\* Lamport time `upto`
Truncated(bytes, upto) ==
    [bytes EXCEPT !.intact = FALSE, !.ops = {o \in @ : o.lam <= upto}]

\* whether OpLog::decode_and_add(update) returns Err
DecodeErr(update) == ~update.intact

\* a decode_full that drops the error and goes on
PanicsNever(update) == FALSE

\* whether decode_full panics: the unwrap() of the decode result
decode_full_panics(update) == DecodeErr(update)

\* the instance a panicking decode_full leaves behind: the oplog holds what was
\* decoded before the error, the branch was not reached
decode_full_unwound(self, update) ==
    [self EXCEPT !.doc.oplog = DecodeAndAdd(self.doc.oplog, update)]

\* decode_full when it returns
decode_full(self, update) ==
    LET oplog == DecodeAndAdd(self.doc.oplog, update)
    IN  [self EXCEPT !.doc = [oplog  |-> oplog,
                              branch |-> BranchMerge(self.doc.branch, oplog)]]

\* a merge that sends other's snapshot to self and nothing back
MergeOneWay(self, other) ==
    <<decode_full(self, OplogEncode(other.doc.oplog, "default")), other>>

\* a merge that sends self's snapshot to other and takes nothing back
MergeSendOnly(self, other) ==
    <<self, decode_full(other, OplogEncode(self.doc.oplog, "default"))>>

\* a merge that hands each replica its own snapshot
MergeOwnSnapshot(self, other) ==
    LET a_to_b == OplogEncode(self.doc.oplog, "default")
        b_to_a == OplogEncode(other.doc.oplog, "default")
    IN  <<decode_full(self, a_to_b), decode_full(other, b_to_a)>>

\* merge(self, other): the pair <<self', other'>>
merge(self, other) ==
    LET a_to_b == OplogEncode(self.doc.oplog, "default")
        b_to_a == OplogEncode(other.doc.oplog, "default")
    IN  <<decode_full(self, b_to_a), decode_full(other, a_to_b)>>

\* ------------------------------------------------------------- the state
VARIABLES
    \* inputs, fixed by Init
    workload,   \* get_automerge_actions(): the action sequence
    caps,       \* per engine, what gc() and compression() can report
    rngA, rngB, \* the unknown output stream of StdRng, as two parameters
    parallel,   \* run_doc_size(parallel)
    \* one driver invocation
    pc,         \* idle, call, seq_loop, par_loop, par_merge, par_batch,
                \* encode, returned
    req,        \* [C, gc, compression]: the type and arguments of the call
    crdt, crdt2,
    cursor,     \* actions consumed from the iterator
    rng,        \* [seed, pos]
    r, j,       \* the drawn batch size and the `for _ in 0..r` counter
    ret,        \* the returned DocSizeReport
    \* observations of the current invocation
    applied,    \* <<action index, replica, calls made>> in the order of
                \* application
    draws,      \* the batch sizes drawn
    sinceA, sinceB, \* actions applied to A, B since the last merge
    merges, encodes,
    \* bench_document_size / run_doc_size
    benchPc,    \* off, per_crdt, render, done, panic
    eIx, cIx,   \* position in the per_crdt calls and in the config loops
    table,      \* ReportTable: <<[key, val]>> in insertion order
    requested,  \* per entry of table, the (compression, gc) of each record
    md,
    \* a session of direct driver calls
    runs, reports,
    \* free-form two-replica scenario
    quiet,      \* merges that returned since the last edit: 0, 1, or 2 for more
    given       \* the direct decode_full call made since the last edit, if
                \* any: [some, update, before]

inputVars == <<workload, caps, rngA, rngB, parallel>>
driverVars == <<pc, req, crdt, crdt2, cursor, rng, r, j, ret>>
obsVars == <<applied, draws, sinceA, sinceB, merges, encodes>>
benchVars == <<benchPc, eIx, cIx, table, requested, md>>
sessionVars == <<runs, reports>>
scenarioVars == <<quiet, given>>
vars == <<inputVars, driverVars, obsVars, benchVars, sessionVars, scenarioVars>>

\* ------------------------------------------------------------ the inputs
Engines == {"loro", "automerge", "diamond-type", "yrs"}
CapKinds == {"ok", "errT", "errF"}
CapProfiles == [gc : CapKinds, compression : CapKinds]

Action(pos, del, ins) == [pos |-> pos, del |-> del, ins |-> ins]

\* MaxLong single-character appends
LongWorkload == [i \in 1..MaxLong |-> Action(i - 1, 0, <<"a">>)]

ShortWorkloads ==
    { <<>>,
      << Action(0, 0, <<"a", "b">>), Action(1, 0, <<"a">>) >>,
      << Action(0, 0, <<"a", "b">>), Action(0, 1, <<"b">>), Action(1, 1, <<>>) >>,
      << Action(0, 0, <<>>), Action(0, 0, <<"b">>), Action(0, 0, <<"a">>),
         Action(1, 1, <<"a", "b">>) >> }

None == [some |-> FALSE, val |-> 0]
Some(n) == [some |-> TRUE, val |-> n]
Ok(v) == [tag |-> "Ok", val |-> v]
Err(v) == [tag |-> "Err", val |-> v]

NoDoc == [doc |-> NewListCRDT(<<>>), id |-> <<>>]
NoReq == [C |-> "", gc |-> FALSE, compression |-> FALSE]
NoGiven == [some |-> FALSE, update |-> OplogEncode(NoDoc.doc.oplog, "ENCODE_FULL"),
           before |-> NoDoc]
NoRet == [name |-> "", dataset_name |-> "", gc |-> Ok(FALSE),
          compression |-> Ok(FALSE), doc_size |-> None]

\* ------------------------------------------------- the Crdt trait, per engine
\* C::gc(): Ok(active setting) when the engine can be configured, Err(fixed
\* value) when it cannot
gc(C, requestedGc) ==
    IF caps[C].gc = "ok" THEN Ok(requestedGc) ELSE Err(caps[C].gc = "errT")

compression(C, requestedCompression) ==
    IF caps[C].compression = "ok" THEN Ok(requestedCompression)
    ELSE Err(caps[C].compression = "errT")

\* --------------------------------------------------------- StdRng
\* SeedableRng::seed_from_u64(seed)
seed_from_u64(seed) == [seed |-> seed, pos |-> 0]
\* the next output word of the generator: a fixed function of seed and position
RngWord(g) == rngA + 7 * (g.seed - 1) + rngB * g.pos
\* gen_range over the inclusive range lo..=hi
GenRangeInclusive(g, lo, hi) ==
    <<lo + (RngWord(g) % (hi - lo + 1)), [g EXCEPT !.pos = @ + 1]>>

\* gen_range over 0..hi, the lower end ignored
GenRangeFromZero(g, lo, hi) == <<RngWord(g) % hi, [g EXCEPT !.pos = @ + 1]>>

\* Rng::gen_range(lo..hi): <<value, generator after the draw>>
gen_range(g, lo, hi) == <<lo + (RngWord(g) % (hi - lo)), [g EXCEPT !.pos = @ + 1]>>

\* ------------------------------------------------------ the two drivers
\* lines 19-25 and 86-92: whether the benchmark runs
CapabilityRun(g, c, wantGc, wantCompression) ==
    LET run0 == TRUE
        run1 == IF g.tag = "Err" THEN g.val = wantGc ELSE run0
        run2 == IF c.tag = "Err" THEN c.val = wantCompression ELSE run1
    IN  run2

\* a loop body that forgets the deletion
ApplyInsertOnly(c, action) ==
    IF action.ins # <<>> THEN text_insert(c, action.pos, action.ins) ELSE c

\* a loop body that inserts before it deletes
ActionCallsInsertFirst(action) ==
    (IF action.ins # <<>>
     THEN << [fn |-> "text_insert", pos |-> action.pos, len |-> 0, text |-> action.ins] >>
     ELSE <<>>)
    \o (IF action.del # 0
        THEN << [fn |-> "text_del", pos |-> action.pos, len |-> action.del, text |-> <<>>] >>
        ELSE <<>>)

\* the calls the loop body makes for one action, in order: text_del when
\* del != 0, then text_insert when ins is not empty
ActionCalls(action) ==
    (IF action.del # 0
     THEN << [fn |-> "text_del", pos |-> action.pos, len |-> action.del, text |-> <<>>] >>
     ELSE <<>>)
    \o (IF action.ins # <<>>
        THEN << [fn |-> "text_insert", pos |-> action.pos, len |-> 0, text |-> action.ins] >>
        ELSE <<>>)

RECURSIVE Perform(_, _)
\* the calls made on instance c, one after the other
Perform(c, calls) ==
    IF calls = <<>> THEN c
    ELSE Perform(IF Head(calls).fn = "text_del"
                 THEN text_del(c, Head(calls).pos, Head(calls).len)
                 ELSE text_insert(c, Head(calls).pos, Head(calls).text),
                 Tail(calls))

\* the loop body applied to one action
ApplyAction(c, action) == Perform(c, ActionCalls(action))

\* the entry of the application log: the action's index, the replica, the
\* calls made
Applied(ix, replica) == <<ix, replica, ActionCalls(workload[ix])>>

\* an iterator that starts over when it reaches the end
IterNextCycle(cur) ==
    IF cur < Len(workload) THEN cur + 1
    ELSE IF Len(workload) > 0 THEN 1 ELSE 0

\* an iterator that does not advance past its first item
IterNextReplay(cur) == IF cur < Len(workload) THEN Max({cur, 1}) ELSE 0

\* Iterator::next on the action iterator: the index handed out, or 0 at the end
IterNext(cur) == IF cur < Len(workload) THEN cur + 1 ELSE 0

Report(doc_size) ==
    [name |-> req.C, dataset_name |-> "automerge paper",
     gc |-> gc(req.C, req.gc),
     compression |-> compression(req.C, req.compression),
     doc_size |-> doc_size]

ResetObs ==
    /\ applied' = <<>>
    /\ draws' = <<>>
    /\ sinceA' = 0
    /\ sinceB' = 0
    /\ merges' = 0
    /\ encodes' = 0

\* gen_report, lines 17-48: create, capability check, early return
GenReportStart ==
    /\ pc = "call"
    /\ ~parallel
    /\ \E id \in AgentIds : crdt' = create(id)
    /\ IF CapabilityRun(gc(req.C, req.gc), compression(req.C, req.compression),
                        req.gc, req.compression)
       THEN pc' = "seq_loop" /\ ret' = ret
       ELSE pc' = "returned" /\ ret' = Report(None)
    /\ cursor' = 0
    /\ UNCHANGED <<req, crdt2, rng, r, j>>
    /\ UNCHANGED <<inputVars, obsVars, benchVars, sessionVars, scenarioVars>>

\* gen_report, lines 49-60: one iteration of the for loop
GenReportApply ==
    /\ pc = "seq_loop"
    /\ IterNext(cursor) # 0
    /\ cursor' = IterNext(cursor)
    /\ crdt' = ApplyAction(crdt, workload[IterNext(cursor)])
    /\ applied' = Append(applied, Applied(IterNext(cursor), "A"))
    /\ UNCHANGED <<pc, req, crdt2, rng, r, j, ret>>
    /\ UNCHANGED <<draws, sinceA, sinceB, merges, encodes>>
    /\ UNCHANGED <<inputVars, benchVars, sessionVars, scenarioVars>>

\* gen_report, lines 61-80: encode_full and the report
GenReportFinish ==
    /\ pc = "seq_loop"
    /\ IterNext(cursor) = 0
    /\ ret' = Report(Some(BytesLen(encode_full(crdt))))
    /\ encodes' = encodes + 1
    /\ pc' = "returned"
    /\ UNCHANGED <<req, crdt, crdt2, cursor, rng, r, j>>
    /\ UNCHANGED <<applied, draws, sinceA, sinceB, merges>>
    /\ UNCHANGED <<inputVars, benchVars, sessionVars, scenarioVars>>

\* a seed taken from the clock: it differs from one invocation to the next
RngSeedClock(invocation) == 1 + invocation

\* the seed the two-site driver hands to seed_from_u64, line 103
RngSeed(invocation) == 1

\* gen_report_parallel, lines 83-118
ParStart ==
    /\ pc = "call"
    /\ parallel
    \* the two thread_rng draws of one run are taken to differ
    /\ \E ida, idb \in AgentIds :
          /\ ida # idb
          /\ crdt' = create(ida)
          /\ crdt2' = create(idb)
    /\ IF CapabilityRun(gc(req.C, req.gc), compression(req.C, req.compression),
                        req.gc, req.compression)
       THEN pc' = "par_loop" /\ ret' = ret
       ELSE pc' = "returned" /\ ret' = Report(None)
    /\ rng' = seed_from_u64(RngSeed(runs))
    /\ cursor' = 0
    /\ UNCHANGED <<req, r, j>>
    /\ UNCHANGED <<inputVars, obsVars, benchVars, sessionVars, scenarioVars>>

\* lines 119-130: the next action goes to A
ParApplyA ==
    /\ pc = "par_loop"
    /\ IterNext(cursor) # 0
    /\ cursor' = IterNext(cursor)
    /\ crdt' = ApplyAction(crdt, workload[IterNext(cursor)])
    /\ applied' = Append(applied, Applied(IterNext(cursor), "A"))
    /\ sinceA' = sinceA + 1
    /\ pc' = "par_merge"
    /\ UNCHANGED <<req, crdt2, rng, r, j, ret>>
    /\ UNCHANGED <<draws, sinceB, merges, encodes>>
    /\ UNCHANGED <<inputVars, benchVars, sessionVars, scenarioVars>>

\* lines 131-132: merge, then draw the batch size
ParMergeDraw ==
    /\ pc = "par_merge"
    /\ LET m == merge(crdt, crdt2)
           d == gen_range(rng, 1, 11)
       IN  /\ crdt' = m[1]
           /\ crdt2' = m[2]
           /\ r' = d[1]
           /\ rng' = d[2]
           /\ draws' = Append(draws, d[1])
    /\ j' = 0
    /\ sinceA' = 0
    /\ sinceB' = 0
    /\ merges' = merges + 1
    /\ pc' = "par_batch"
    /\ UNCHANGED <<req, cursor, ret>>
    /\ UNCHANGED <<applied, encodes>>
    /\ UNCHANGED <<inputVars, benchVars, sessionVars, scenarioVars>>

\* lines 133-141: one iteration of `for _ in 0..r` that finds an action
ParApplyB ==
    /\ pc = "par_batch"
    /\ j < r
    /\ IterNext(cursor) # 0
    /\ cursor' = IterNext(cursor)
    /\ crdt2' = ApplyAction(crdt2, workload[IterNext(cursor)])
    /\ applied' = Append(applied, Applied(IterNext(cursor), "B"))
    /\ sinceB' = sinceB + 1
    /\ j' = j + 1
    /\ UNCHANGED <<pc, req, crdt, rng, r, ret>>
    /\ UNCHANGED <<draws, sinceA, merges, encodes>>
    /\ UNCHANGED <<inputVars, benchVars, sessionVars, scenarioVars>>

\* lines 142-146: the for loop ends (r reached, or break) and the merge
ParBatchEnd ==
    /\ pc = "par_batch"
    /\ (j >= r \/ IterNext(cursor) = 0)
    /\ LET m == merge(crdt, crdt2)
       IN  crdt' = m[1] /\ crdt2' = m[2]
    /\ sinceA' = 0
    /\ sinceB' = 0
    /\ merges' = merges + 1
    /\ pc' = "par_loop"
    /\ UNCHANGED <<req, cursor, rng, r, j, ret>>
    /\ UNCHANGED <<applied, draws, encodes>>
    /\ UNCHANGED <<inputVars, benchVars, sessionVars, scenarioVars>>

\* lines 148-167: encode_full of A and the report
ParFinish ==
    /\ pc = "par_loop"
    /\ IterNext(cursor) = 0
    /\ ret' = Report(Some(BytesLen(encode_full(crdt))))
    /\ encodes' = encodes + 1
    /\ pc' = "returned"
    /\ UNCHANGED <<req, crdt, crdt2, cursor, rng, r, j>>
    /\ UNCHANGED <<applied, draws, sinceA, sinceB, merges>>
    /\ UNCHANGED <<inputVars, benchVars, sessionVars, scenarioVars>>

Driver ==
    \/ GenReportStart
    \/ GenReportApply
    \/ GenReportFinish
    \/ ParStart
    \/ ParApplyA
    \/ ParMergeDraw
    \/ ParApplyB
    \/ ParBatchEnd
    \/ ParFinish

\* ------------------------------------------ a session of driver calls
\* A caller invokes one driver MaxRuns times on the same workload; each call
\* names its configuration.
SessionCall ==
    /\ benchPc = "off"
    /\ pc = "idle"
    /\ runs < MaxRuns
    /\ \E g, c \in BOOLEAN :
          req' = [C |-> "diamond-type", gc |-> g, compression |-> c]
    /\ runs' = runs + 1
    /\ pc' = "call"
    /\ ResetObs
    /\ UNCHANGED <<crdt, crdt2, cursor, rng, r, j, ret, reports>>
    /\ UNCHANGED <<inputVars, benchVars, scenarioVars>>

SessionReturn ==
    /\ benchPc = "off"
    /\ pc = "returned"
    /\ reports' = Append(reports, [req |-> req, ret |-> ret,
                                   applied |-> applied, draws |-> draws])
    /\ pc' = "idle"
    /\ UNCHANGED <<req, crdt, crdt2, cursor, rng, r, j, ret, runs>>
    /\ UNCHANGED <<inputVars, obsVars, benchVars, scenarioVars>>

InitFrame ==
    /\ pc = "idle"
    /\ req = NoReq
    /\ crdt = NoDoc
    /\ crdt2 = NoDoc
    /\ cursor = 0
    /\ rng = seed_from_u64(1)
    /\ r = 0
    /\ j = 0
    /\ ret = NoRet
    /\ applied = <<>>
    /\ draws = <<>>
    /\ sinceA = 0
    /\ sinceB = 0
    /\ merges = 0
    /\ encodes = 0
    /\ runs = 0
    /\ reports = <<>>
    /\ quiet = 0
    /\ given = NoGiven

InitBenchOff ==
    /\ benchPc = "off"
    /\ eIx = 0
    /\ cIx = 0
    /\ table = <<>>
    /\ requested = <<>>
    /\ md = [header |-> <<>>, rows |-> <<>>]

Configurable == [gc |-> "ok", compression |-> "ok"]

\* Every engine capability with one generator stream, and every generator
\* stream with a fully configurable engine; the sequential driver draws nothing.
InitDriver ==
    /\ InitFrame
    /\ InitBenchOff
    /\ parallel \in BOOLEAN
    /\ \E p \in CapProfiles : caps = [e \in Engines |-> p]
    /\ workload \in ShortWorkloads \cup {LongWorkload}
    /\ rngA \in 0..BatchMax
    /\ rngB \in {0, 3}
    /\ (~parallel \/ caps["diamond-type"] # Configurable) => (rngA = 0 /\ rngB = 0)

NextDriver == SessionCall \/ Driver \/ SessionReturn

SpecDriver == InitDriver /\ [][NextDriver]_vars

\* The control flow of the two drivers alone: where a Driver step takes pc,
\* the iterator and the batch counter.  Every Driver step is such a step, and
\* where one is possible a Driver step is, the rest of a step being
\* assignments.
DriverControl ==
    \/ /\ pc = "call"
       /\ pc' = IF ~CapabilityRun(gc(req.C, req.gc),
                                  compression(req.C, req.compression),
                                  req.gc, req.compression)
                THEN "returned"
                ELSE IF parallel THEN "par_loop" ELSE "seq_loop"
       /\ cursor' = 0
       /\ j' = j
    \/ /\ pc = "seq_loop" /\ IterNext(cursor) # 0
       /\ pc' = pc /\ cursor' = IterNext(cursor) /\ j' = j
    \/ /\ pc \in {"seq_loop", "par_loop"} /\ IterNext(cursor) = 0
       /\ pc' = "returned" /\ cursor' = cursor /\ j' = j
    \/ /\ pc = "par_loop" /\ IterNext(cursor) # 0
       /\ pc' = "par_merge" /\ cursor' = IterNext(cursor) /\ j' = j
    \/ /\ pc = "par_merge"
       /\ pc' = "par_batch" /\ cursor' = cursor /\ j' = 0
    \/ /\ pc = "par_batch" /\ j < r /\ IterNext(cursor) # 0
       /\ pc' = pc /\ cursor' = IterNext(cursor) /\ j' = j + 1
    \/ /\ pc = "par_batch" /\ (j >= r \/ IterNext(cursor) = 0)
       /\ pc' = "par_loop" /\ cursor' = cursor /\ j' = j

\* every step taken while a driver is running is a step of its control flow
ControlRefined ==
    [][(pc \notin {"idle", "returned"}) => DriverControl]_vars

\* A driver is straight-line code on one thread: once called it keeps taking
\* its next step while it has one.
SpecDriverLive ==
    InitDriver /\ [][NextDriver]_vars /\ WF_<<pc, cursor, j>>(DriverControl)

\* ------------------------------------- free-form edits on two replicas
\* Two fresh instances; any in-range action may go to either replica at any
\* time, and merge may be called at any time.
Texts == {<<>>, <<"a">>, <<"b", "a">>}

AllOps == crdt.doc.oplog.ops \cup crdt2.doc.oplog.ops

InRange(c, action) ==
    /\ action.pos + action.del <= Len(get_text(c))
    /\ Cardinality(AllOps) + action.del + Len(action.ins) <= MaxOps

EditA ==
    /\ pc = "idle"
    /\ \E pos \in 0..MaxOps, del \in 0..1, ins \in Texts :
          /\ InRange(crdt, Action(pos, del, ins))
          /\ del + Len(ins) > 0
          /\ crdt' = ApplyAction(crdt, Action(pos, del, ins))
    /\ quiet' = 0
    /\ given' = NoGiven
    /\ UNCHANGED <<pc, req, crdt2, cursor, rng, r, j, ret>>
    /\ UNCHANGED <<inputVars, obsVars, benchVars, sessionVars>>

EditB ==
    /\ pc = "idle"
    /\ \E pos \in 0..MaxOps, del \in 0..1, ins \in Texts :
          /\ InRange(crdt2, Action(pos, del, ins))
          /\ del + Len(ins) > 0
          /\ crdt2' = ApplyAction(crdt2, Action(pos, del, ins))
    /\ quiet' = 0
    /\ given' = NoGiven
    /\ UNCHANGED <<pc, req, crdt, cursor, rng, r, j, ret>>
    /\ UNCHANGED <<inputVars, obsVars, benchVars, sessionVars>>

MergeAB ==
    /\ LET m == merge(crdt, crdt2)
       IN  crdt' = m[1] /\ crdt2' = m[2]
    /\ quiet' = IF quiet = 0 THEN 1 ELSE 2
    /\ given' = given
    /\ UNCHANGED <<pc, req, cursor, rng, r, j, ret>>
    /\ UNCHANGED <<inputVars, obsVars, benchVars, sessionVars>>

InitMerge ==
    /\ pc = "idle"
    /\ req = NoReq
    \* the two thread_rng draws are taken to differ
    /\ \E ida, idb \in AgentIds :
          ida # idb /\ crdt = create(ida) /\ crdt2 = create(idb)
    /\ cursor = 0
    /\ rng = seed_from_u64(1)
    /\ r = 0
    /\ j = 0
    /\ ret = NoRet
    /\ applied = <<>>
    /\ draws = <<>>
    /\ sinceA = 0
    /\ sinceB = 0
    /\ merges = 0
    /\ encodes = 0
    /\ runs = 0
    /\ reports = <<>>
    /\ quiet = 0
    /\ given = NoGiven
    /\ InitBenchOff
    /\ parallel = TRUE
    /\ caps = [e \in Engines |-> Configurable]
    /\ workload = <<>>
    /\ rngA = 0
    /\ rngB = 0

NextMerge == EditA \/ EditB \/ MergeAB

SpecMerge == InitMerge /\ [][NextMerge]_vars

\* ------------------------------------- decode_full called on its own
\* Two fresh instances are edited; at any time the first ingests a full
\* snapshot of the second, as encoded or cut short.  A panic ends the process.
DecodeFull ==
    /\ pc = "idle"
    /\ \E whole \in BOOLEAN, upto \in 0..MaxOps :
          LET snap   == encode_full(crdt2)
              update == IF whole THEN snap ELSE Truncated(snap, upto)
          IN  /\ whole => upto = 0
              /\ given' = [some |-> TRUE, update |-> update, before |-> crdt]
              /\ IF decode_full_panics(update)
                 THEN /\ pc' = "panic"
                      /\ crdt' = decode_full_unwound(crdt, update)
                 ELSE /\ pc' = pc
                      /\ crdt' = decode_full(crdt, update)
    /\ quiet' = quiet
    /\ UNCHANGED <<req, crdt2, cursor, rng, r, j, ret>>
    /\ UNCHANGED <<inputVars, obsVars, benchVars, sessionVars>>

NextDecode == EditA \/ EditB \/ DecodeFull

SpecDecode == InitMerge /\ [][NextDecode]_vars

\* ------------------------------- the sequential driver on any workload
\* gen_report on a configurable engine, the action iterator handing out any
\* in-range action next, or ending, as it likes: workload is the sequence
\* handed out so far.
TextStep ==
    /\ pc = "seq_loop"
    /\ Len(workload) < MaxOps
    /\ \E pos \in 0..MaxOps, del \in 0..1, ins \in Texts :
          /\ InRange(crdt, Action(pos, del, ins))
          /\ workload' = Append(workload, Action(pos, del, ins))
          /\ crdt' = ApplyAction(crdt, Action(pos, del, ins))
          /\ applied' = Append(applied, <<cursor + 1, "A",
                                         ActionCalls(Action(pos, del, ins))>>)
    /\ cursor' = cursor + 1
    /\ UNCHANGED <<caps, rngA, rngB, parallel>>
    /\ UNCHANGED <<pc, req, crdt2, rng, r, j, ret>>
    /\ UNCHANGED <<draws, sinceA, sinceB, merges, encodes>>
    /\ UNCHANGED <<benchVars, sessionVars, scenarioVars>>

InitText ==
    /\ pc = "call"
    /\ req = [C |-> "diamond-type", gc |-> FALSE, compression |-> FALSE]
    /\ crdt = NoDoc
    /\ crdt2 = NoDoc
    /\ cursor = 0
    /\ rng = seed_from_u64(1)
    /\ r = 0
    /\ j = 0
    /\ ret = NoRet
    /\ applied = <<>>
    /\ draws = <<>>
    /\ sinceA = 0
    /\ sinceB = 0
    /\ merges = 0
    /\ encodes = 0
    /\ runs = 1
    /\ reports = <<>>
    /\ quiet = 0
    /\ given = NoGiven
    /\ InitBenchOff
    /\ parallel = FALSE
    /\ caps = [e \in Engines |-> Configurable]
    /\ workload = <<>>
    /\ rngA = 0
    /\ rngB = 0

NextText == GenReportStart \/ TextStep \/ GenReportFinish

SpecText == InitText /\ [][NextText]_vars

\* the checked-out branch always is the text of the replica's own oplog
BranchIsCheckout ==
    /\ get_text(crdt) = Content(crdt.doc.oplog.ops)
    /\ get_text(crdt2) = Content(crdt2.doc.oplog.ops)

\* ------------------------------------------------------ the report table
\* the engine columns of the header row, line 190
HeaderColumns == <<"loro", "automerge", "diamond-type", "yrs">>
EngineNo(e) == CHOOSE n \in 1..Len(HeaderColumns) : HeaderColumns[n] = e

\* a lookup by position: the n-th entry inserted taken for the n-th column
GetByPosition(t, key) == t[EngineNo(key)].val

\* HashMap<String, Vec<DocSizeReport>>: entries in the order of first insertion
HasKey(t, key) == \E i \in 1..Len(t) : t[i].key = key
Get(t, key) == t[CHOOSE i \in 1..Len(t) : t[i].key = key].val

\* entry(key).or_insert_with(Vec::new).push(value)
EntryPush(t, key, value) ==
    IF HasKey(t, key)
    THEN [i \in 1..Len(t) |->
            IF t[i].key = key THEN [t[i] EXCEPT !.val = Append(@, value)] ELSE t[i]]
    ELSE Append(t, [key |-> key, val |-> <<value>>])

\* ReportTable::insert_report::<C>(report)
insert_report(t, C, report) == EntryPush(t, C, report)

DigitChars == <<"0", "1", "2", "3", "4", "5", "6", "7", "8", "9">>
\* usize::to_string as text
Display(n) == LET d == to_string(n) IN [i \in 1..Len(d) |-> DigitChars[d[i] + 1]]

\* doc_size.map(|s| s.to_string()).unwrap_or_else(|| "x".to_string())
SizeCell(report) ==
    IF report.doc_size.some THEN Display(report.doc_size.val) ELSE <<"x">>

\* the row labels and indices of line 193
RowTitles == <<"", "gc", "compress", "gc & compress">>
\* the vectors a data row reads, line 195
RowEngines == <<"loro", "diamond-type", "yrs">>
\* the keys to_all_md unwraps, lines 186-189
LookedUp == {"loro", "automerge", "diamond-type", "yrs"}

\* ReportTable::to_all_md, once its four lookups have succeeded: the header
\* cells and, per data row, the title and the cells pushed after it
to_all_md(t) ==
    [header |-> HeaderColumns,
     rows   |-> [k \in 1..Len(RowTitles) |->
                   [title |-> RowTitles[k],
                    cells |-> [n \in 1..Len(RowEngines) |->
                                 SizeCell(Get(t, RowEngines[n])[k])]]]]

\* whether to_all_md panics: a lookup that finds no entry, or a record index
\* past the end of a vector
ToAllMdPanics(t) ==
    \/ \E key \in LookedUp : ~HasKey(t, key)
    \/ \E n \in 1..Len(RowEngines) : Len(Get(t, RowEngines[n])) < Len(RowTitles)

\* the per_crdt calls of bench_document_size, lines 228-231
BenchOrder == <<"loro", "yrs", "diamond-type">>
\* `for compression in [false, true] { for gc in [false, true]`, lines 213-214
ConfigOrder ==
    << [compression |-> FALSE, gc |-> FALSE], [compression |-> FALSE, gc |-> TRUE],
       [compression |-> TRUE, gc |-> FALSE], [compression |-> TRUE, gc |-> TRUE] >>

\* per_crdt, lines 213-219: the next (compression, gc) pair calls a driver
PerCrdtCall ==
    /\ benchPc = "per_crdt"
    /\ pc = "idle"
    /\ req' = [C |-> BenchOrder[eIx], gc |-> ConfigOrder[cIx].gc,
               compression |-> ConfigOrder[cIx].compression]
    /\ pc' = "call"
    /\ ResetObs
    /\ UNCHANGED <<crdt, crdt2, cursor, rng, r, j, ret>>
    /\ UNCHANGED <<inputVars, benchVars, sessionVars, scenarioVars>>

\* a per_crdt that drops the reports of skipped runs
InsertedIfRun(report) == report.doc_size.some

\* whether per_crdt passes a report on to insert_report, line 220
Inserted(report) == TRUE

\* per_crdt, line 220, and the loop ends; bench_document_size moves on
PerCrdtInsert ==
    /\ benchPc = "per_crdt"
    /\ pc = "returned"
    /\ IF Inserted(ret)
       THEN /\ table' = insert_report(table, req.C, ret)
            /\ requested' = EntryPush(requested, req.C, ConfigOrder[cIx])
       ELSE UNCHANGED <<table, requested>>
    /\ pc' = "idle"
    /\ IF cIx < Len(ConfigOrder)
       THEN cIx' = cIx + 1 /\ eIx' = eIx /\ benchPc' = benchPc
       ELSE IF eIx < Len(BenchOrder)
       THEN cIx' = 1 /\ eIx' = eIx + 1 /\ benchPc' = benchPc
       ELSE cIx' = cIx /\ eIx' = eIx /\ benchPc' = "render"
    /\ UNCHANGED <<req, crdt, crdt2, cursor, rng, r, j, ret, md>>
    /\ UNCHANGED <<inputVars, obsVars, sessionVars, scenarioVars>>

\* run_doc_size, line 237: table.to_all_md()
ToAllMd ==
    /\ benchPc = "render"
    /\ IF ToAllMdPanics(table)
       THEN benchPc' = "panic" /\ md' = md
       ELSE benchPc' = "done" /\ md' = to_all_md(table)
    /\ UNCHANGED <<eIx, cIx, table, requested>>
    /\ UNCHANGED <<inputVars, driverVars, obsVars, sessionVars, scenarioVars>>

NoMd == [header |-> <<>>, rows |-> <<>>]

\* engines of two kinds: fully configurable, or with one fixed feature
BenchProfiles ==
    { Configurable, [gc |-> "errF", compression |-> "ok"],
      [gc |-> "ok", compression |-> "errF"] }

InitBench ==
    /\ InitFrame
    /\ benchPc = "per_crdt"
    /\ eIx = 1
    /\ cIx = 1
    /\ table = <<>>
    /\ requested = <<>>
    /\ md = NoMd
    /\ parallel \in BOOLEAN
    /\ caps \in [Engines -> BenchProfiles]
    /\ caps["automerge"] = Configurable
    /\ workload \in { <<>>, << Action(0, 0, <<"a", "b">>), Action(1, 1, <<"a">>) >> }
    /\ rngA \in {0, 1}
    /\ rngB = 0
    /\ ~parallel => rngA = 0

NextBench == PerCrdtCall \/ Driver \/ PerCrdtInsert \/ ToAllMd

\* run_doc_size(parallel), from its call to its return or panic
Spec == InitBench /\ [][NextBench]_vars

\* ------------------------------------------- to_all_md on arbitrary tables
\* The table per_crdt builds when called for the engines of `order`, one after
\* the other; the size recorded for engine number e, row k is 10 * e + k.
RecordOf(e, k) ==
    LET cfg == ConfigOrder[k]
        run == CapabilityRun(gc(e, cfg.gc), compression(e, cfg.compression),
                             cfg.gc, cfg.compression)
    IN  [name |-> e, dataset_name |-> "automerge paper",
         gc |-> gc(e, cfg.gc),
         compression |-> compression(e, cfg.compression),
         doc_size |-> IF run THEN Some(10 * EngineNo(e) + k) ELSE None]

TableOf(order) ==
    [i \in 1..Len(order) |->
        [key |-> order[i],
         val |-> [k \in 1..Len(ConfigOrder) |-> RecordOf(order[i], k)]]]

\* every order in which three or four distinct engines can be benchmarked
Orders ==
    { o \in UNION { [1..n -> Engines] : n \in {3, 4} } :
        \A a, b \in 1..Len(o) : a # b => o[a] # o[b] }

InitRender ==
    /\ InitFrame
    /\ benchPc = "render"
    /\ eIx = 0
    /\ cIx = 0
    /\ requested = <<>>
    /\ md = NoMd
    /\ parallel = FALSE
    /\ caps \in [Engines -> BenchProfiles]
    /\ \E o \in Orders : table = TableOf(o)
    /\ workload = <<>>
    /\ rngA = 0
    /\ rngB = 0

NextRender == ToAllMd

SpecRender == InitRender /\ [][NextRender]_vars

\* ===================================================== properties
Running == pc \in {"seq_loop", "par_loop", "par_merge", "par_batch"}
Numeric(rep) == rep.ret.doc_size.some

\* C1: whenever gc() or compression() reports a value other than the one
\* requested, the driver returns doc_size = None, has applied no action and
\* has not called encode_full.
Mismatch ==
    \/ gc(req.C, req.gc).val # req.gc
    \/ compression(req.C, req.compression).val # req.compression

C1_SkipOnMismatch ==
    (pc = "returned" /\ Mismatch) =>
        (~ret.doc_size.some /\ applied = <<>> /\ encodes = 0)

\* C2: once merge(A, B) has returned, and until the next edit, A and B have
\* the same text, however the edits were spread over A and B before.
C2_Convergence == quiet >= 1 => get_text(crdt) = get_text(crdt2)

\* two inserts typed concurrently after the same item, one per replica, merged
C2_Witness ==
    /\ quiet >= 1
    /\ \E x, y \in crdt.doc.oplog.ops :
          /\ x.kind = "ins" /\ y.kind = "ins"
          /\ x.agent # y.agent
          /\ x.ref = y.ref
          /\ x.lam = y.lam
    /\ \E d \in crdt.doc.oplog.ops : d.kind = "del"

\* C3: between two merge points of the two-site driver, A receives at most one
\* action and B at most ten.
C3_BatchBound == sinceA <= 1 /\ sinceB <= BatchMax

C3_Witness == pc = "par_batch" /\ sinceB = BatchMax /\ r = BatchMax

\* C4: the two-site driver applies the actions of the workload in workload
\* order, each to one replica, each once: the n-th application is of action n,
\* the replicas hold exactly the operations of the actions consumed, and a run
\* that returns a size has applied every action.
RECURSIVE OpCount(_)
OpCount(n) ==
    IF n = 0 THEN 0
    ELSE workload[n].del + Len(workload[n].ins) + OpCount(n - 1)

C4_ForwardCursor ==
    (parallel /\ (Running \/ (pc = "returned" /\ ret.doc_size.some))) =>
        /\ Len(applied) = cursor
        /\ \A i \in 1..Len(applied) :
              applied[i][1] = i /\ applied[i][2] \in {"A", "B"}
        /\ Cardinality(AllOps) = OpCount(cursor)
        /\ (pc = "returned" => cursor = Len(workload))

C4_Witness ==
    /\ parallel
    /\ pc = "returned"
    /\ ret.doc_size.some
    /\ \E i \in 1..Len(applied) - 2 :
          /\ applied[i][2] = "B"
          /\ applied[i + 1][2] = "B"
          /\ applied[i + 2][2] = "A"
    /\ \E i \in 1..Len(workload) : workload[i].del # 0

\* C5: once per_crdt has returned for an engine, the table holds exactly four
\* records under its name, the k-th being the report of the k-th configuration
\* in the order (F,F), (F,T), (T,F), (T,T) of (compression, gc), which is the
\* configuration the k-th row label names; skipped runs are in the table too.
Label(cfg) ==
    IF cfg.gc /\ cfg.compression THEN "gc & compress"
    ELSE IF cfg.gc THEN "gc"
    ELSE IF cfg.compression THEN "compress"
    ELSE ""

PerCrdtDone(i) == eIx > i \/ benchPc \in {"render", "done", "panic"}

C5_FourRecords ==
    \A i \in 1..Len(BenchOrder) :
        PerCrdtDone(i) =>
            LET e == BenchOrder[i] IN
            /\ HasKey(table, e)
            /\ Len(Get(table, e)) = 4
            /\ Get(requested, e) =
                 << [compression |-> FALSE, gc |-> FALSE],
                    [compression |-> FALSE, gc |-> TRUE],
                    [compression |-> TRUE, gc |-> FALSE],
                    [compression |-> TRUE, gc |-> TRUE] >>
            /\ \A k \in 1..4 :
                  LET rec == Get(table, e)[k]
                      cfg == Get(requested, e)[k]
                  IN  /\ rec.name = e
                      /\ rec.gc = gc(e, cfg.gc)
                      /\ rec.compression = compression(e, cfg.compression)
                      /\ Label(cfg) = RowTitles[k]

C5_Witness ==
    /\ benchPc = "render"
    /\ \E i \in 1..Len(table) :
          /\ ~table[i].val[2].doc_size.some
          /\ table[i].val[3].doc_size.some
          /\ table[i].val[1].doc_size.some
          /\ table[i].val[3].compression = Ok(TRUE)

\* C6: the rendered table has four data rows and, in each, one cell per engine
\* column of the header, the cell under a header being the size (or "x") of
\* the engine the header names.
C6_CellPerColumn ==
    benchPc = "done" =>
        /\ Len(md.rows) = Len(RowTitles)
        /\ \A k \in 1..Len(md.rows) :
              /\ md.rows[k].title = RowTitles[k]
              /\ Len(md.rows[k].cells) = Len(md.header)
              /\ \A n \in 1..Len(md.rows[k].cells) :
                    n <= Len(md.header) =>
                        md.rows[k].cells[n] = SizeCell(Get(table, md.header[n])[k])

\* C7: whatever the order in which the engines were benchmarked, to_all_md
\* returns what it returns for the table built in header order.
C7_OrderIndependent ==
    benchPc = "done" => md = to_all_md(TableOf(HeaderColumns))

C7_Witness ==
    /\ benchPc = "done"
    /\ table[1].key = "yrs"
    /\ table[2].key = "loro"
    /\ md.rows[2].cells[1] # md.rows[2].cells[3]
    /\ md.rows[2].cells[1] # <<"x">>

\* C8: a merge of two replicas that a merge has already converged, with no
\* edit in between, changes neither replica's text nor its encoded size.
C8_IdempotentMerge ==
    [][ (quiet >= 1 /\ quiet' >= 1) =>
          /\ get_text(crdt') = get_text(crdt)
          /\ get_text(crdt2') = get_text(crdt2)
          /\ BytesLen(encode_full(crdt')) = BytesLen(encode_full(crdt))
          /\ BytesLen(encode_full(crdt2')) = BytesLen(encode_full(crdt2)) ]_vars

C8_Witness ==
    /\ quiet = 2
    /\ get_text(crdt) # <<>>
    /\ Cardinality({o.agent : o \in crdt.doc.oplog.ops}) = 2
    /\ \E d \in crdt.doc.oplog.ops : d.kind = "del"

\* C9: two runs of the sequential driver with the same configuration, on the
\* same workload, report the same doc_size.
C9_SequentialDeterminism ==
    ~parallel =>
        \A a, b \in 1..Len(reports) :
            reports[a].req = reports[b].req =>
                reports[a].ret.doc_size = reports[b].ret.doc_size

\* C10: every invocation of the two-site driver that runs draws the same batch
\* sizes, and so sends the same actions to the same replicas, whatever its
\* configuration.
C10_SameBatches ==
    parallel =>
        \A a, b \in 1..Len(reports) :
            (Numeric(reports[a]) /\ Numeric(reports[b])) =>
                /\ reports[a].draws = reports[b].draws
                /\ reports[a].applied = reports[b].applied

C10_Witness ==
    /\ parallel
    /\ Len(reports) = 2
    /\ Numeric(reports[1]) /\ Numeric(reports[2])
    /\ reports[1].req # reports[2].req
    /\ Len(reports[2].draws) >= 3
    /\ reports[2].draws[1] # reports[2].draws[2]

\* C11: after decode_full has returned, the instance holds every operation it
\* held before the call and every operation of the snapshot, and get_text is
\* the text of the operations it holds.
C11_DecodeMerges ==
    (given.some /\ ~DecodeErr(given.update)) =>
        /\ given.before.doc.oplog.ops \subseteq crdt.doc.oplog.ops
        /\ given.update.ops \subseteq crdt.doc.oplog.ops
        /\ get_text(crdt) = Content(crdt.doc.oplog.ops)

\* the receiver had typed and deleted, the snapshot holds operations of the
\* other replica typed concurrently, and both show in the text
C11_Witness ==
    /\ given.some
    /\ ~DecodeErr(given.update)
    /\ \E d \in given.before.doc.oplog.ops : d.kind = "del"
    /\ given.before.doc.branch.content # <<>>
    /\ given.update.ops # {}
    /\ given.update.ops \cap given.before.doc.oplog.ops = {}
    /\ Len(get_text(crdt)) > Len(given.before.doc.branch.content)
    /\ crdt.doc.oplog.ops = given.before.doc.oplog.ops \cup given.update.ops

\* C12: when decode_full is given bytes that do not decode, the process
\* panics at once: the receiver's branch is what it was before the call, no
\* report has been returned or recorded, and nothing runs afterwards.
C12_DecodeFailureFatal ==
    (given.some /\ DecodeErr(given.update)) =>
        /\ pc = "panic"
        /\ crdt.doc.branch = given.before.doc.branch
        /\ ret = NoRet
        /\ reports = <<>>

\* a cut snapshot that still carried visible text of the other replica
C12_Witness ==
    /\ pc = "panic"
    /\ DecodeErr(given.update)
    /\ \E o \in given.update.ops :
          o.kind = "ins" /\ o.ref = Root /\ o \notin given.before.doc.oplog.ops
    /\ Content(crdt.doc.oplog.ops) # get_text(crdt)

\* C13: after any sequence of in-range actions applied in order to one fresh
\* instance, get_text is the string that the same deletes and inserts make of
\* the empty string, and so is the text of the recorded operations.
RECURSIVE PlainText(_)
PlainText(n) ==
    IF n = 0 THEN <<>>
    ELSE LET a  == workload[n]
             s  == PlainText(n - 1)
             s1 == IF a.del # 0 THEN RemoveAt(s, a.pos, a.del) ELSE s
         IN  IF a.ins # <<>> THEN InsertAt(s1, a.pos, a.ins) ELSE s1

C13_PlainString ==
    pc \in {"seq_loop", "returned"} =>
        /\ get_text(crdt) = PlainText(Len(workload))
        /\ Content(crdt.doc.oplog.ops) = PlainText(Len(workload))

\* "ba" typed at 0, then "ba" typed at 1, inside the first: "bbaa"
C13_Witness ==
    /\ pc = "returned"
    /\ workload = << Action(0, 0, <<"b", "a">>), Action(1, 0, <<"b", "a">>) >>
    /\ get_text(crdt) = <<"b", "b", "a", "a">>

\* C14: a merge leaves each replica with exactly the union of the operation
\* sets the two replicas held before it; when B held nothing, both texts
\* afterwards are A's text from before the merge.
C14_SnapshotExchange ==
    [][ quiet' >= 1 =>
          /\ crdt'.doc.oplog.ops = crdt.doc.oplog.ops \cup crdt2.doc.oplog.ops
          /\ crdt2'.doc.oplog.ops = crdt.doc.oplog.ops \cup crdt2.doc.oplog.ops
          /\ crdt2.doc.oplog.ops = {} =>
                /\ get_text(crdt') = get_text(crdt)
                /\ get_text(crdt2') = get_text(crdt) ]_vars

\* B never edited: after the merge it shows the text A typed and cut
C14_Witness ==
    /\ quiet = 1
    /\ crdt2.doc.oplog.ops # {}
    /\ \A o \in crdt2.doc.oplog.ops : o.agent = crdt.id
    /\ \E d \in crdt2.doc.oplog.ops : d.kind = "del"
    /\ Len(get_text(crdt2)) >= 2
    /\ get_text(crdt2) = get_text(crdt)

\* C15: when the two-site driver has encoded A, no action has been applied to
\* either replica since the last merge, a merge has happened if any action was
\* applied, A holds the operations of every action of the workload, those
\* applied to B included, and A and B hold the same operations and text.
C15_FinalState ==
    (parallel /\ pc = "returned" /\ ret.doc_size.some) =>
        /\ sinceA = 0 /\ sinceB = 0
        /\ Len(workload) > 0 => merges >= 1
        /\ Len(applied) = Len(workload)
        /\ Cardinality(crdt.doc.oplog.ops) = OpCount(Len(workload))
        /\ crdt.doc.oplog.ops = crdt2.doc.oplog.ops
        /\ get_text(crdt) = get_text(crdt2)
        /\ ret.doc_size.val = BytesLen(encode_full(crdt2))

\* a run whose last action went to B, with operations of both replicas in A
C15_Witness ==
    /\ parallel /\ pc = "returned" /\ ret.doc_size.some
    /\ Len(applied) >= 3
    /\ applied[Len(applied)][2] = "B"
    /\ \E o \in crdt.doc.oplog.ops : o.agent = crdt2.id /\ o.kind = "del"
    /\ \E o \in crdt.doc.oplog.ops : o.agent = crdt.id
    /\ get_text(crdt) # <<>>

\* C16: a round of the two-site driver applies one action to A, merges before
\* B receives anything, draws r in 1..10, applies min(r, remaining) actions
\* to B and merges again: two merges per round, and a batch for B that is
\* empty only when A's action was the last of the workload.
RECURSIVE Consumed(_)
\* the actions the first k rounds consume, by that rule, given the draws
Consumed(k) ==
    IF k = 0 THEN 0
    ELSE LET c    == Consumed(k - 1)
             left == Len(workload) - (c + 1)
         IN  c + 1 + (IF draws[k] < left THEN draws[k] ELSE left)

RoundsDrawn == Len(draws)

C16_RoundStructure ==
    (parallel /\ (Running \/ (pc = "returned" /\ ret.doc_size.some))) =>
        /\ \A k \in 1..RoundsDrawn :
              /\ draws[k] \in 1..BatchMax
              /\ Consumed(k - 1) < Len(workload)
              /\ applied[Consumed(k - 1) + 1][2] = "A"
              /\ (k < RoundsDrawn \/ pc # "par_batch") =>
                    /\ \A i \in (Consumed(k - 1) + 2)..Consumed(k) :
                          applied[i][2] = "B"
                    /\ (Consumed(k) = Consumed(k - 1) + 1) =>
                          Consumed(k) = Len(workload)
        /\ pc = "par_merge" =>
              /\ cursor = Consumed(RoundsDrawn) + 1
              /\ applied[cursor][2] = "A"
              /\ merges = 2 * RoundsDrawn
              /\ sinceA = 1 /\ sinceB = 0
        /\ pc = "par_batch" =>
              /\ cursor = Consumed(RoundsDrawn - 1) + 1 + j
              /\ \A i \in 1..j : applied[cursor - j + i][2] = "B"
              /\ j <= r /\ r = draws[RoundsDrawn]
              /\ merges = 2 * RoundsDrawn - 1
              /\ sinceA = 0 /\ sinceB = j
        /\ pc \in {"par_loop", "returned"} =>
              /\ cursor = Consumed(RoundsDrawn)
              /\ Len(applied) = cursor
              /\ merges = 2 * RoundsDrawn
              /\ sinceA = 0 /\ sinceB = 0

\* three rounds: full batches of different sizes, then one the end cut short
C16_Witness ==
    /\ parallel /\ pc = "returned" /\ ret.doc_size.some
    /\ RoundsDrawn = 3
    /\ merges = 6
    /\ draws[1] >= 2 /\ draws[2] > draws[1]
    /\ Consumed(2) = draws[1] + draws[2] + 2
    /\ Consumed(3) - Consumed(2) - 1 \in 1..(draws[3] - 1)

\* C17: a sequential run that is not skipped has applied action 1, 2, ... up
\* to the last, each once, to its one instance; it has called encode_full
\* once, not before the last action, and doc_size is the length of the
\* encoding of the instance as the last action left it.
C17_SequentialRun ==
    ~parallel =>
        /\ pc = "seq_loop" =>
              /\ encodes = 0
              /\ Len(applied) = cursor
        /\ (pc = "returned" /\ ret.doc_size.some) =>
              /\ Len(applied) = Len(workload)
              /\ \A i \in 1..Len(applied) :
                    applied[i][1] = i /\ applied[i][2] = "A"
              /\ Cardinality(crdt.doc.oplog.ops) = OpCount(Len(workload))
              /\ get_text(crdt) = Content(crdt.doc.oplog.ops)
              /\ crdt2 = NoDoc \/ crdt2.doc.oplog.ops = {}
              /\ encodes = 1
              /\ ret.doc_size.val = BytesLen(encode_full(crdt))

\* a returned run over typing, replacing and cutting
C17_Witness ==
    /\ ~parallel /\ pc = "returned" /\ ret.doc_size.some
    /\ Len(workload) = 3
    /\ workload[2].del # 0 /\ workload[2].ins # <<>>
    /\ workload[3].del # 0 /\ workload[3].ins = <<>>
    /\ encodes = 1
    /\ ret.doc_size.val >= 5

\* C18: wherever an action is applied, text_del(pos, del) is called exactly
\* when del != 0 and text_insert(pos, ins) exactly when ins is not empty, the
\* delete first, both at the action's position and on the one instance the
\* action goes to: that instance's own operations are, in the order made,
\* the deletions and then the insertions of each of its actions.
RECURSIVE ExpectedOps(_, _)
\* kind and character of the operations replica rep makes for the first n
\* entries of the application log
ExpectedOps(n, rep) ==
    IF n = 0 THEN <<>>
    ELSE LET a == workload[applied[n][1]]
         IN  ExpectedOps(n - 1, rep)
             \o (IF applied[n][2] = rep
                 THEN [k \in 1..a.del |-> [kind |-> "del", ch |-> ""]]
                      \o [k \in 1..Len(a.ins) |-> [kind |-> "ins", ch |-> a.ins[k]]]
                 ELSE <<>>)

OwnOpsAsExpected(c, rep) ==
    LET own == {o \in c.doc.oplog.ops : o.agent = c.id}
        exp == ExpectedOps(Len(applied), rep)
    IN  /\ Cardinality(own) = Len(exp)
        /\ \A o \in own : o.kind = exp[o.seq].kind /\ o.ch = exp[o.seq].ch

C18_ActionApplication ==
    (Running \/ (pc = "returned" /\ ret.doc_size.some)) =>
        /\ \A i \in 1..Len(applied) :
              LET a    == workload[applied[i][1]]
                  cs   == applied[i][3]
                  dels == SelectSeq(cs, LAMBDA c : c.fn = "text_del")
                  inss == SelectSeq(cs, LAMBDA c : c.fn = "text_insert")
              IN  /\ Len(cs) = Len(dels) + Len(inss)
                  /\ Len(dels) = (IF a.del # 0 THEN 1 ELSE 0)
                  /\ Len(inss) = (IF a.ins # <<>> THEN 1 ELSE 0)
                  /\ Len(cs) = 2 => cs[1].fn = "text_del"
                  /\ \A n \in 1..Len(cs) : cs[n].pos = a.pos
                  /\ \A n \in 1..Len(dels) : dels[n].len = a.del
                  /\ \A n \in 1..Len(inss) : inss[n].text = a.ins
        /\ OwnOpsAsExpected(crdt, "A")
        /\ parallel => OwnOpsAsExpected(crdt2, "B")

\* a two-site run in which A applied a replacing action and B one too
C18_Witness ==
    /\ parallel /\ pc = "returned" /\ ret.doc_size.some
    /\ \E i, k \in 1..Len(applied) :
          /\ applied[i][2] = "A" /\ Len(applied[i][3]) = 1
          /\ applied[k][2] = "B" /\ Len(applied[k][3]) = 2
          /\ applied[k][3][1].fn = "text_del"
          /\ applied[k][3][1].pos = 1
    /\ \E i \in 1..Len(applied) : applied[i][3] = <<>>

\* C19: when bench_document_size has returned, the table holds four records
\* under every engine name to_all_md looks up, and run_doc_size does not
\* panic: it returns the rendered table.
C19_RenderingSucceeds ==
    /\ benchPc \in {"render", "done", "panic"} =>
          \A key \in LookedUp :
              HasKey(table, key) /\ Len(Get(table, key)) = Len(RowTitles)
    /\ benchPc # "panic"

\* C20: every call of a driver returns a report; in the two-site driver each
\* round started has consumed an action of its own, so there are no more
\* rounds than actions and no more merges than twice the actions.
RoundsStarted == Len(draws) + (IF pc = "par_merge" THEN 1 ELSE 0)

C20_Termination ==
    /\ [](Running =>
            /\ cursor <= Len(workload)
            /\ Len(applied) <= Len(workload)
            /\ parallel =>
                  /\ RoundsStarted <= cursor
                  /\ merges <= 2 * cursor)
    /\ [](pc = "returned" =>
            /\ Len(draws) <= Len(workload)
            /\ merges <= 2 * Len(workload))
    /\ (pc = "call" ~> (pc = "returned" /\ ret.name = req.C))

\* a second run has returned after two rounds over three actions
C20_Witness ==
    /\ parallel /\ pc = "returned" /\ ret.doc_size.some
    /\ runs = 2
    /\ Len(workload) = 3
    /\ Len(draws) = 2
    /\ merges = 4

====
